---------------------------- MODULE Spec2Model ----------------------------
(***************************************************************************)
(* The per-client session engine of the AeroNyx privacy-network server,    *)
(* src/src/server/client.rs: handle_client (handshake, establishment,      *)
(* cleanup) and process_client_session (inbound loop, heartbeat task,      *)
(* key-rotation task).                                                     *)
(*                                                                         *)
(* Every connection c runs handle_client as its own task; pc[c] is its     *)
(* position.  The collaborators whose code lies outside client.rs          *)
(* (SessionManager, IpPoolManager, SessionKeyManager, AuthManager) are     *)
(* modelled by their contract: the registry is a set of sessions, the      *)
(* pool a lease table, the key store a map client_id -> key.               *)
(*                                                                         *)
(* Modelling decisions:                                                    *)
(*  - random_string(16) and generate_key() return fresh values: the        *)
(*    session id of connection c is c, a key is <<minting connection,      *)
(*    generation>>.                                                        *)
(*  - packet_to_ws_message (encode) does not fail.                         *)
(*  - A step is one await-delimited piece of the code that touches at most *)
(*    one shared collaborator.                                             *)
(*  - JoinHandle::abort cancels a task at its next suspension point: a     *)
(*    task parked at interval.tick() never runs again; a task that is      *)
(*    past its tick may run on to its next suspension point or be dropped  *)
(*    at any await in between.                                             *)
(***************************************************************************)
EXTENDS Integers, Sequences, FiniteSets, TLC

\* ----------------------------------------------------------------- bounds
NumConns == 2          \* connections the environment may open
NumClients == 2        \* distinct valid public keys
NumIps == 2            \* addresses of the pool
MaxCounter == 2        \* Data.counter ranges over 0..MaxCounter
MaxFrames == 3         \* inbound frames of a session, single-session runs
MaxTicks == 2          \* heartbeat ticks of a session, single-session runs
MaxRotations == 2      \* key rotations of a session, single-session runs
SharedFrames == 1      \* inbound frames of a session, two-connection runs
SharedTicks == 1       \* heartbeat ticks of a session, two-connection runs
SharedRotations == 1   \* key rotations of a session, two-connection runs
MaxSends == 2               \* frames each writer of a session sends (send-lock runs)

\* ------------------------------------------------------ program constants
ErrAuth == 1001        \* create_error_packet(1001, ...)
ErrProtocol == 1002    \* create_error_packet(1002, ...)
ErrAcl == 1005         \* create_error_packet(1005, "Access denied by ACL")
ErrCrypto == 1006      \* create_error_packet(1006, ...)
ErrAlloc == 1007       \* create_error_packet(1007, ...)
ShutdownReason == 2    \* create_disconnect_packet(2, "Server shutting down")

Conns == 1..NumConns
Clients == 1..NumClients
Ips == 1..NumIps
NoClient == 0
BadKey == NumClients + 1      \* a public key of invalid format
NoIp == 0
NoConn == 0
NoKey == <<0, 0>>
NoCounter == -1               \* last_counter = None

VARIABLES
    budget,        \* what the environment will do in this run (fixed by Init)
    serverState,   \* Arc<RwLock<ServerState>>
    registry,      \* SessionManager: the set of registered sessions
    lease,         \* IpPoolManager: ip -> connection holding the lease
    keyStore,      \* SessionKeyManager: client_id -> current key
    pc,            \* position of handle_client for each connection
    client,        \* public_key / public_key_string
    ipAddr,        \* ip_address
    sessKey,       \* session_key
    log,           \* history of the lifecycle calls of handle_client
    exitRes,       \* process_result
    aborted,       \* heartbeat_handle.abort() and key_rotation_handle.abort() called
    lastCounter,   \* last_counter
    wraps,         \* history: Data frames with counter 0 accepted after a nonzero last_counter
    nIn,           \* inbound frames dispatched by the loop
    cur,           \* the frame of the latest loop iteration
    eff,           \* what the latest loop iteration did
    hbPc,          \* heartbeat task
    sequence,      \* heartbeat task: sequence
    rotPc,         \* key-rotation task
    rotNeeds,      \* key-rotation task: what needs_rotation returned in this tick
    rotNew,        \* key-rotation task: new_key
    rotCur,        \* key-rotation task: current_key
    rotCount,      \* key rotations completed by the task
    respKey,       \* history: public_key of the ChallengeResponse received
    sinceStop,     \* history: frames dispatched since ServerState left Running
    sendLock,      \* the Mutex around ws_sender: the writer holding it
    sendPc,        \* position of each writer inside send_packet
    wire,          \* the writes made on the send endpoint, in order
    hsIn,          \* history: what the two reads of the handshake returned
    pings          \* history: the send attempts of the heartbeat task

sendv == <<sendLock, sendPc, wire>>
shared == <<budget, serverState, registry, lease, keyStore, sendv>>
connv == <<pc, client, ipAddr, sessKey, log, exitRes, aborted, respKey, hsIn>>
loopv == <<lastCounter, wraps, nIn, cur, eff, sinceStop>>
hbv == <<hbPc, sequence, pings>>
rotv == <<rotPc, rotNeeds, rotNew, rotCur, rotCount>>
vars == <<shared, connv, loopv, hbv, rotv>>

\* The writers on a session's send endpoint after registration.
Writers == {"loop", "heartbeat", "rotation"}
NoWriter == "none"

\* ---------------------------------------------------------------- frames
\* PacketType, reduced to the fields the engine reads or writes.
Frame(k, a, b) == [kind |-> k, a |-> a, b |-> b]
NoFrame == Frame("None", 0, 0)
PongFrame(ts, seq) == Frame("Pong", ts, seq)
PingFrame(seq) == Frame("Ping", 0, seq)
DisconnectFrame(reason) == Frame("Disconnect", reason, 0)
RenewalResponse(expires, success) == Frame("IpRenewalResponse", expires, IF success THEN 1 ELSE 0)

\* One send attempt on the connection: the frame and whether the write succeeded.
Sent(f, ok) == [frame |-> f, ok |-> ok]

\* What one iteration of the inbound loop did.
Effect(sends, accepted, routed, recorded, renewed) ==
    [sent |-> sends, accepted |-> accepted, routed |-> routed, recorded |-> recorded,
     renewed |-> renewed]
NoEffect == Effect(<<>>, FALSE, FALSE, FALSE, FALSE)

\* An entry of log: a call of handle_client and its outcome.
Ev(e) == [ev |-> e, n |-> 0, msg |-> "", ok |-> TRUE]
ErrorSent(code, msg, ok) == [ev |-> "Error", n |-> code, msg |-> msg, ok |-> ok]
Released(ok) == [ev |-> "release_ip", n |-> 0, msg |-> "", ok |-> ok]

Logged(c, e) == \E i \in 1..Len(log[c]) : log[c][i].ev = e
IndexOf(c, e) == CHOOSE i \in 1..Len(log[c]) : log[c][i].ev = e
Has(c, entry) == \E i \in 1..Len(log[c]) : log[c][i] = entry

\* ---------------------------------------------------------- collaborators
\* StringValidator::is_valid_solana_pubkey
IsValidPubkey(k) == k \in Clients

\* SessionManager
NewSession(c) == [id |-> c, client |-> client[c], ip |-> ipAddr[c]]
AddSession(reg, s) == reg \cup {s}
RemoveSession(reg, id) == {s \in reg : s.id # id}
Entries(id) == {s \in registry : s.id = id}

\* IpPoolManager
FreeIps == {i \in Ips : lease[i] = NoConn}
NextFree == {i \in FreeIps : \A j \in FreeIps : i <= j}
Allocate(l, i, c) == [l EXCEPT ![i] = c]
ReleaseResults(i) ==
    IF lease[i] = NoConn THEN {FALSE} ELSE IF budget.faulty THEN BOOLEAN ELSE {TRUE}
Release(l, i, ok) == IF ok THEN [l EXCEPT ![i] = NoConn] ELSE l
LeaseExpiry == 3600

\* SessionKeyManager
StoreKey(ks, k, key) == [ks EXCEPT ![k] = key]
RemoveKey(ks, k) == [ks EXCEPT ![k] = NoKey]
GetKey(k) == keyStore[k]
\* needs_rotation: whether the stored key's age has reached the threshold.  The
\* clock is the environment's: a stored key may or may not be due.
NeedsRotationResults(k) == IF keyStore[k] = NoKey THEN {FALSE} ELSE BOOLEAN

\* ------------------------------------------------------------------ Init
\* What the environment does in a run: how many connections it opens, how many
\* frames (and of which kinds) it sends to each session, how often each
\* session's timers fire and whether release_ip may fail.
Budget(n, f, kinds, t, r, faulty) ==
    [conns |-> n, frames |-> f, kinds |-> kinds, ticks |-> t, rots |-> r, faulty |-> faulty]
FrameKinds == {"Data", "Ping", "Pong", "IpRenewal", "Disconnect", "Other", "Bad"}
\* In a run of several connections the first session is the busy one, and the
\* frames it receives are Data frames (the handler that reads the key store);
\* the other sessions are established, wait in the loop and are torn down.
First(n) == [c \in Conns |-> IF c = 1 THEN n ELSE 0]

InitWith(b) ==
    /\ budget = b
    /\ serverState = "Running"
    /\ registry = {}
    /\ lease = [i \in Ips |-> NoConn]
    /\ keyStore = [k \in Clients |-> NoKey]
    /\ pc = [c \in Conns |-> "idle"]
    /\ client = [c \in Conns |-> NoClient]
    /\ ipAddr = [c \in Conns |-> NoIp]
    /\ sessKey = [c \in Conns |-> NoKey]
    /\ log = [c \in Conns |-> <<>>]
    /\ exitRes = [c \in Conns |-> "none"]
    /\ aborted = [c \in Conns |-> FALSE]
    /\ lastCounter = [c \in Conns |-> NoCounter]
    /\ wraps = [c \in Conns |-> 0]
    /\ nIn = [c \in Conns |-> 0]
    /\ cur = [c \in Conns |-> NoFrame]
    /\ eff = [c \in Conns |-> NoEffect]
    /\ hbPc = [c \in Conns |-> "none"]
    /\ sequence = [c \in Conns |-> 0]
    /\ rotPc = [c \in Conns |-> "none"]
    /\ rotNeeds = [c \in Conns |-> FALSE]
    /\ rotNew = [c \in Conns |-> NoKey]
    /\ rotCur = [c \in Conns |-> NoKey]
    /\ rotCount = [c \in Conns |-> 0]
    /\ respKey = [c \in Conns |-> NoClient]
    /\ hsIn = [c \in Conns |-> <<>>]
    /\ pings = [c \in Conns |-> <<>>]
    /\ sinceStop = [c \in Conns |-> 0]
    /\ sendLock = [c \in Conns |-> NoWriter]
    /\ sendPc = [c \in Conns |-> [w \in Writers |-> "idle"]]
    /\ wire = [c \in Conns |-> <<>>]

\* Several connections, a reliable pool.
Init ==
    InitWith(Budget(NumConns, First(SharedFrames), {"Data"}, First(SharedTicks),
                    First(SharedRotations), FALSE))
\* One connection, a pool whose release may fail.
InitSession ==
    InitWith(Budget(1, First(MaxFrames), FrameKinds, First(MaxTicks), First(MaxRotations), TRUE))

\* ------------------------------------------------------------- handshake
Goto(c, p, entries) ==
    /\ pc' = [pc EXCEPT ![c] = p]
    /\ log' = [log EXCEPT ![c] = @ \o entries]

\* A mutant of OnReadFailed: the read is tried again.
OnReadFailed_Retries(c) == Goto(c, pc[c], <<>>)

\* ws_receiver.next() under time::timeout returned an error, ran into the
\* deadline, or the stream was closed.
OnReadFailed(c) == Goto(c, "terminated", <<>>)

\* A mutant of OnVerifyFailed: the Error is sent but the function goes on.
OnVerifyFailed_Proceeds(c, sendOk) ==
    Goto(c, "alloc_ip",
         <<Ev("verify_failed"), ErrorSent(ErrAuth, "Challenge verification failed", sendOk)>>)

\* verify_challenge returned Err.
OnVerifyFailed(c, sendOk) ==
    Goto(c, "terminated",
         <<Ev("verify_failed"), ErrorSent(ErrAuth, "Challenge verification failed", sendOk)>>)

\* TLS accept and WebSocket upgrade.
Accept(c) ==
    /\ pc[c] = "idle"
    /\ c <= budget.conns
    /\ \E ok \in BOOLEAN : Goto(c, IF ok THEN "await_auth" ELSE "terminated", <<>>)
    /\ UNCHANGED <<shared, client, ipAddr, respKey, hsIn, sessKey, exitRes, aborted, loopv, hbv, rotv>>

\* The first frame a peer may send.  Public keys are interchangeable, so
\* connection c presents one of the first c keys (or a malformed one): every
\* pattern of equal and different keys among the connections occurs.
AuthInputs(c) ==
    {Frame("Auth", k, 0) : k \in {k \in Clients : k <= c} \cup {BadKey}}
        \cup {Frame(k, 0, 0) : k \in {"Other", "Bad", "Error", "Timeout", "Closed"}}

\* AWAIT_AUTH: the first frame, the challenge.
RecvAuth(c) ==
    /\ pc[c] = "await_auth"
    /\ \E f \in AuthInputs(c), genOk \in BOOLEAN, sendOk \in BOOLEAN :
        /\ hsIn' = [hsIn EXCEPT ![c] = Append(@, f)]
        /\ CASE f.kind = "Auth" /\ ~IsValidPubkey(f.a) ->
                /\ Goto(c, "terminated", <<ErrorSent(ErrAuth, "Invalid public key format", sendOk)>>)
                /\ client' = client
          [] f.kind = "Auth" /\ IsValidPubkey(f.a) /\ ~genOk ->
                /\ Goto(c, "terminated",
                        <<Ev("Auth"), Ev("generate_failed"),
                          ErrorSent(ErrAuth, "Failed to generate challenge", sendOk)>>)
                /\ client' = [client EXCEPT ![c] = f.a]
          [] f.kind = "Auth" /\ IsValidPubkey(f.a) /\ genOk /\ ~sendOk ->
                /\ Goto(c, "terminated", <<Ev("Auth"), Ev("challenge_failed")>>)
                /\ client' = [client EXCEPT ![c] = f.a]
          [] f.kind = "Auth" /\ IsValidPubkey(f.a) /\ genOk /\ sendOk ->
                /\ Goto(c, "await_response", <<Ev("Auth"), Ev("Challenge")>>)
                /\ client' = [client EXCEPT ![c] = f.a]
          [] f.kind = "Other" ->
                /\ Goto(c, "terminated", <<ErrorSent(ErrProtocol, "Expected authentication message", sendOk)>>)
                /\ client' = client
          [] f.kind = "Bad" ->
                /\ Goto(c, "terminated", <<ErrorSent(ErrProtocol, "Invalid auth message", sendOk)>>)
                /\ client' = client
          [] f.kind \in {"Error", "Timeout", "Closed"} ->
                /\ OnReadFailed(c)
                /\ client' = client
    /\ UNCHANGED <<shared, ipAddr, respKey, sessKey, exitRes, aborted, loopv, hbv, rotv>>

ResponseInputs ==
    {Frame("ChallengeResponse", k, 0) : k \in Clients \cup {BadKey}}
        \cup {Frame(k, 0, 0) : k \in {"Other", "Bad", "Error", "Timeout", "Closed"}}

\* A mutant of KeyMismatch: the two keys are not compared.
KeyMismatch_NotCompared(respPubkey, publicKey) == FALSE

\* resp_pubkey != public_key
KeyMismatch(respPubkey, publicKey) == respPubkey # publicKey

\* A mutant of AclDecision: the denial is reported but the function goes on.
AclDecision_NoReturn(c, allowed, sendOk) ==
    IF allowed
    THEN Goto(c, "alloc_ip", <<Ev("verified"), Ev("acl_allowed")>>)
    ELSE Goto(c, "alloc_ip",
              <<Ev("verified"), Ev("acl_denied"), ErrorSent(ErrAcl, "Access denied by ACL", sendOk)>>)

\* verify_challenge returned Ok: is_client_allowed decides.
AclDecision(c, allowed, sendOk) ==
    IF allowed
    THEN Goto(c, "alloc_ip", <<Ev("verified"), Ev("acl_allowed")>>)
    ELSE Goto(c, "terminated",
              <<Ev("verified"), Ev("acl_denied"), ErrorSent(ErrAcl, "Access denied by ACL", sendOk)>>)

\* AWAIT_RESPONSE: the second frame, verify_challenge, is_client_allowed.
RecvResponse(c) ==
    /\ pc[c] = "await_response"
    /\ \E f \in ResponseInputs, verified \in BOOLEAN, allowed \in BOOLEAN, sendOk \in BOOLEAN :
        /\ CASE f.kind = "ChallengeResponse" /\ KeyMismatch(f.a, client[c]) ->
                Goto(c, "terminated", <<ErrorSent(ErrAuth, "Public key mismatch", sendOk)>>)
          [] f.kind = "ChallengeResponse" /\ ~KeyMismatch(f.a, client[c]) /\ ~verified ->
                OnVerifyFailed(c, sendOk)
          [] f.kind = "ChallengeResponse" /\ ~KeyMismatch(f.a, client[c]) /\ verified ->
                AclDecision(c, allowed, sendOk)
          [] f.kind = "Other" ->
                Goto(c, "terminated", <<ErrorSent(ErrProtocol, "Expected challenge response", sendOk)>>)
          [] f.kind = "Bad" ->
                Goto(c, "terminated", <<ErrorSent(ErrProtocol, "Invalid challenge response message", sendOk)>>)
          [] f.kind \in {"Error", "Timeout", "Closed"} ->
                OnReadFailed(c)
        /\ respKey' = [respKey EXCEPT ![c] = IF f.kind = "ChallengeResponse" THEN f.a ELSE @]
        /\ hsIn' = [hsIn EXCEPT ![c] = Append(@, f)]
    /\ UNCHANGED <<shared, client, ipAddr, sessKey, exitRes, aborted, loopv, hbv, rotv>>

\* --------------------------------------------------------- establishment
\* ip_pool.allocate_ip: an address that is not leased, or an error.  Addresses
\* are interchangeable: the pool hands out its lowest free one.
AllocIp(c) ==
    /\ pc[c] = "alloc_ip"
    /\ \E i \in NextFree \cup {NoIp}, sendOk \in BOOLEAN :
        IF i = NoIp
        THEN /\ Goto(c, "terminated", <<ErrorSent(ErrAlloc, "Failed to allocate IP", sendOk)>>)
             /\ UNCHANGED <<lease, ipAddr>>
        ELSE /\ Goto(c, "install_key", <<Ev("allocate_ip")>>)
             /\ lease' = Allocate(lease, i, c)
             /\ ipAddr' = [ipAddr EXCEPT ![c] = i]
    /\ UNCHANGED <<budget, sendv, serverState, registry, keyStore>>
    /\ UNCHANGED <<client, respKey, hsIn, sessKey, exitRes, aborted, loopv, hbv, rotv>>

\* session_id, generate_key, session_key_manager.store_key.
InstallKey(c) ==
    /\ pc[c] = "install_key"
    /\ Goto(c, "derive", <<Ev("store_key")>>)
    /\ sessKey' = [sessKey EXCEPT ![c] = <<c, 0>>]
    /\ keyStore' = StoreKey(keyStore, client[c], <<c, 0>>)
    /\ UNCHANGED <<budget, sendv, serverState, registry, lease>>
    /\ UNCHANGED <<client, ipAddr, respKey, hsIn, exitRes, aborted, loopv, hbv, rotv>>

\* Pubkey::from_str, get_shared_secret, encrypt_session_key.
Derive(c) ==
    /\ pc[c] = "derive"
    /\ \E r \in {"ok", "parse", "secret", "encrypt"}, sendOk \in BOOLEAN,
          relOk \in ReleaseResults(ipAddr[c]) :
        CASE r = "ok" ->
                /\ Goto(c, "send_assign", <<>>)
                /\ lease' = lease
          [] r = "parse" ->
                /\ Goto(c, "terminated", <<Ev("parse_failed")>>)
                /\ lease' = lease
          [] r = "secret" ->
                /\ Goto(c, "terminated",
                        <<ErrorSent(ErrCrypto, "Failed to derive shared secret", sendOk), Released(relOk)>>)
                /\ lease' = Release(lease, ipAddr[c], relOk)
          [] r = "encrypt" ->
                /\ Goto(c, "terminated",
                        <<ErrorSent(ErrCrypto, "Encryption failed", sendOk), Released(relOk)>>)
                /\ lease' = Release(lease, ipAddr[c], relOk)
    /\ UNCHANGED <<budget, sendv, serverState, registry, keyStore>>
    /\ UNCHANGED <<client, ipAddr, respKey, hsIn, sessKey, exitRes, aborted, loopv, hbv, rotv>>

\* A mutant of SendAssign: the result of the send is not looked at.
SendAssign_IgnoresFailure(c) ==
    /\ pc[c] = "send_assign"
    /\ \E sendOk \in BOOLEAN :
        Goto(c, "register", <<Ev(IF sendOk THEN "IpAssign" ELSE "IpAssign_failed")>>)
    /\ UNCHANGED <<shared, client, ipAddr, respKey, hsIn, sessKey, exitRes, aborted, loopv, hbv, rotv>>

\* Send IpAssign; on failure release the address.
SendAssign(c) ==
    /\ pc[c] = "send_assign"
    /\ \E sendOk \in BOOLEAN, relOk \in ReleaseResults(ipAddr[c]) :
        IF sendOk
        THEN /\ Goto(c, "register", <<Ev("IpAssign")>>)
             /\ lease' = lease
        ELSE /\ Goto(c, "terminated", <<Ev("IpAssign_failed"), Released(relOk)>>)
             /\ lease' = Release(lease, ipAddr[c], relOk)
    /\ UNCHANGED <<budget, sendv, serverState, registry, keyStore>>
    /\ UNCHANGED <<client, ipAddr, respKey, hsIn, sessKey, exitRes, aborted, loopv, hbv, rotv>>

\* ClientSession::new, session_manager.add_session.
Register(c) ==
    /\ pc[c] = "register"
    /\ \E built \in BOOLEAN :
        IF built
        THEN /\ Goto(c, "spawn", <<Ev("add_session")>>)
             /\ registry' = AddSession(registry, NewSession(c))
        ELSE /\ Goto(c, "terminated", <<Ev("session_failed")>>)
             /\ registry' = registry
    /\ UNCHANGED <<budget, sendv, serverState, lease, keyStore>>
    /\ UNCHANGED <<client, ipAddr, respKey, hsIn, sessKey, exitRes, aborted, loopv, hbv, rotv>>

\* process_client_session up to its loop: the two tasks are spawned.
Spawn(c) ==
    /\ pc[c] = "spawn"
    /\ Goto(c, "loop", <<>>)
    /\ hbPc' = [hbPc EXCEPT ![c] = "tick"]
    /\ sequence' = [sequence EXCEPT ![c] = 0]
    /\ pings' = [pings EXCEPT ![c] = <<>>]
    /\ rotPc' = [rotPc EXCEPT ![c] = "tick"]
    /\ lastCounter' = [lastCounter EXCEPT ![c] = NoCounter]
    /\ exitRes' = [exitRes EXCEPT ![c] = "Ok"]
    /\ UNCHANGED <<shared, client, ipAddr, respKey, hsIn, sessKey, aborted>>
    /\ UNCHANGED <<wraps, nIn, cur, eff, sinceStop, rotNeeds, rotNew, rotCur, rotCount>>

\* ---------------------------------------------------------- inbound loop
\* A mutant of LoopCheck: the Disconnect is sent but the loop is not left.
LoopCheck_NoBreak(c) ==
    /\ pc[c] = "loop"
    /\ IF serverState # "Running"
       THEN \E sendOk \in BOOLEAN :
            /\ Goto(c, "recv", <<>>)
            /\ cur' = [cur EXCEPT ![c] = NoFrame]
            /\ eff' = [eff EXCEPT ![c] =
                         Effect(<<Sent(DisconnectFrame(ShutdownReason), sendOk)>>, FALSE, FALSE, FALSE, FALSE)]
            /\ exitRes' = [exitRes EXCEPT ![c] = "Err: Server shutting down"]
       ELSE /\ Goto(c, "recv", <<>>)
            /\ UNCHANGED <<cur, eff, exitRes>>
    /\ UNCHANGED <<shared, client, ipAddr, respKey, hsIn, sessKey, aborted>>
    /\ UNCHANGED <<lastCounter, wraps, nIn, sinceStop, hbv, rotv>>

\* The top of the loop: the check of ServerState.
LoopCheck(c) ==
    /\ pc[c] = "loop"
    /\ IF serverState # "Running"
       THEN \E sendOk \in BOOLEAN :
            /\ Goto(c, "abort", <<>>)
            /\ cur' = [cur EXCEPT ![c] = NoFrame]
            /\ eff' = [eff EXCEPT ![c] =
                         Effect(<<Sent(DisconnectFrame(ShutdownReason), sendOk)>>, FALSE, FALSE, FALSE, FALSE)]
            /\ exitRes' = [exitRes EXCEPT ![c] = "Err: Server shutting down"]
       ELSE /\ Goto(c, "recv", <<>>)
            /\ UNCHANGED <<cur, eff, exitRes>>
    /\ UNCHANGED <<shared, client, ipAddr, respKey, hsIn, sessKey, aborted>>
    /\ UNCHANGED <<lastCounter, wraps, nIn, sinceStop, hbv, rotv>>

PingStamps == {7}
PingSeqs == {0, 1}
Inbound ==
    {Frame("Data", n, 0) : n \in 0..MaxCounter}
        \cup {Frame("Ping", ts, seq) : ts \in PingStamps, seq \in PingSeqs}
        \cup {Frame("IpRenewal", id, ip) : id \in Conns, ip \in Ips}
        \cup {Frame(k, 0, 0) : k \in {"Pong", "Disconnect", "Other", "Bad"}}

\* A mutant of ReplayRejected: counter < last.
ReplayRejected_Strict(last, counter) == last # NoCounter /\ counter < last /\ counter # 0

\* The replay rule: counter <= last && counter != 0 under Some(last).
ReplayRejected(last, counter) == last # NoCounter /\ counter <= last /\ counter # 0

\* A mutant of PongFor: the heartbeat's own counter instead of the Ping's.
PongFor_OwnSequence(ping) == PongFrame(ping.a, 0)

\* The Pong that answers a Ping: echo_timestamp and sequence are the Ping's.
PongFor(ping) == PongFrame(ping.a, ping.b)

\* A mutant of Continue: ServerState is read once, before the loop.
Continue_SkipsCheck(c) == Goto(c, "recv", <<>>) /\ UNCHANGED exitRes

\* The iteration ends: back to the top of the loop, or out of it with result r.
Continue(c) == Goto(c, "loop", <<>>) /\ UNCHANGED exitRes
Break(c, r) == Goto(c, "abort", <<>>) /\ exitRes' = [exitRes EXCEPT ![c] = r]
Did(c, e) == eff' = [eff EXCEPT ![c] = e]

\* A mutant of OnData: get_key comes before last_counter is assigned, so a
\* frame dropped for want of a key leaves last_counter alone.
OnData_KeyFirst(c, f) ==
    IF ReplayRejected(lastCounter[c], f.a) \/ GetKey(client[c]) = NoKey
    THEN /\ Continue(c)
         /\ Did(c, IF ReplayRejected(lastCounter[c], f.a)
                   THEN NoEffect ELSE Effect(<<>>, TRUE, FALSE, FALSE, FALSE))
         /\ UNCHANGED <<lastCounter, wraps>>
    ELSE /\ Continue(c)
         /\ lastCounter' = [lastCounter EXCEPT ![c] = f.a]
         /\ wraps' = [wraps EXCEPT ![c] = IF f.a = 0 /\ lastCounter[c] > 0 THEN @ + 1 ELSE @]
         /\ \E routerOk \in BOOLEAN : Did(c, Effect(<<>>, TRUE, TRUE, routerOk, FALSE))

\* Data: the replay check, last_counter, get_key, the router, the traffic record.
OnData(c, f) ==
    IF ReplayRejected(lastCounter[c], f.a)
    THEN /\ Continue(c)
         /\ Did(c, NoEffect)
         /\ UNCHANGED <<lastCounter, wraps>>
    ELSE /\ Continue(c)
         /\ lastCounter' = [lastCounter EXCEPT ![c] = f.a]
         /\ wraps' = [wraps EXCEPT ![c] = IF f.a = 0 /\ lastCounter[c] > 0 THEN @ + 1 ELSE @]
         /\ IF GetKey(client[c]) # NoKey
            THEN \E routerOk \in BOOLEAN : Did(c, Effect(<<>>, TRUE, TRUE, routerOk, FALSE))
            ELSE Did(c, Effect(<<>>, TRUE, FALSE, FALSE, FALSE))

\* A mutant of OnPing: the Pong's send result is ignored.
OnPing_IgnoresFailure(c, f) ==
    /\ \E sendOk \in BOOLEAN :
        /\ Did(c, Effect(<<Sent(PongFor(f), sendOk)>>, FALSE, FALSE, FALSE, FALSE))
        /\ Continue(c)
    /\ UNCHANGED <<lastCounter, wraps>>

\* Ping: one Pong; a failed send ends the loop.
OnPing(c, f) ==
    /\ \E sendOk \in BOOLEAN :
        /\ Did(c, Effect(<<Sent(PongFor(f), sendOk)>>, FALSE, FALSE, FALSE, FALSE))
        /\ IF sendOk THEN Continue(c) ELSE Break(c, "Err: Pong send failed")
    /\ UNCHANGED <<lastCounter, wraps>>

\* A mutant of OnIpRenewal: only the session id is compared.
OnIpRenewal_IdOnly(c, f) ==
    /\ IF f.a # c
       THEN Continue(c) /\ Did(c, NoEffect)
       ELSE \E renewOk \in BOOLEAN, sendOk \in BOOLEAN :
            /\ Did(c, Effect(<<Sent(RenewalResponse(IF renewOk THEN LeaseExpiry ELSE 0, renewOk),
                                    sendOk)>>, FALSE, FALSE, FALSE, TRUE))
            /\ IF sendOk THEN Continue(c) ELSE Break(c, "Err: IP renewal response send failed")
    /\ UNCHANGED <<lastCounter, wraps>>

\* IpRenewal: both fields must be this session's; renew_ip; one response.
OnIpRenewal(c, f) ==
    /\ IF f.a # c \/ f.b # ipAddr[c]
       THEN Continue(c) /\ Did(c, NoEffect)
       ELSE \E renewOk \in BOOLEAN, sendOk \in BOOLEAN :
            /\ Did(c, Effect(<<Sent(RenewalResponse(IF renewOk THEN LeaseExpiry ELSE 0, renewOk),
                                    sendOk)>>, FALSE, FALSE, FALSE, TRUE))
            /\ IF sendOk
               THEN Continue(c)
               ELSE Break(c, IF renewOk THEN "Err: IP renewal response send failed"
                                        ELSE "Err: Failed IP renewal response send failed")
    /\ UNCHANGED <<lastCounter, wraps>>

\* A mutant of OnUndecodable: a frame that does not decode ends the session.
OnUndecodable_Fatal(c, f) ==
    /\ IF f.kind = "Bad" THEN Break(c, "Err: Protocol") ELSE Continue(c)
    /\ Did(c, NoEffect)
    /\ UNCHANGED <<lastCounter, wraps>>

\* A frame that does not decode, or decodes to a kind with no arm of its own.
OnUndecodable(c, f) ==
    /\ Continue(c)
    /\ Did(c, NoEffect)
    /\ UNCHANGED <<lastCounter, wraps>>

\* One iteration from next_message to the end of the match.
LoopFrame(c) ==
    /\ pc[c] = "recv"
    /\ \E f \in (IF nIn[c] < budget.frames[c] THEN {g \in Inbound : g.kind \in budget.kinds} ELSE {})
                    \cup {Frame("Error", 0, 0), Frame("Closed", 0, 0)} :
        /\ cur' = [cur EXCEPT ![c] = f]
        /\ nIn' = [nIn EXCEPT ![c] = IF f.kind \in {"Error", "Closed"} THEN @ ELSE @ + 1]
        /\ sinceStop' = [sinceStop EXCEPT ![c] =
                            IF serverState # "Running" /\ f.kind \notin {"Error", "Closed"}
                            THEN @ + 1 ELSE @]
        /\ CASE f.kind = "Data" -> OnData(c, f)
             [] f.kind = "Ping" -> OnPing(c, f)
             [] f.kind = "IpRenewal" -> OnIpRenewal(c, f)
             [] f.kind = "Disconnect" ->
                    Break(c, "Ok") /\ Did(c, NoEffect) /\ UNCHANGED <<lastCounter, wraps>>
             [] f.kind = "Pong" ->
                    Continue(c) /\ Did(c, NoEffect) /\ UNCHANGED <<lastCounter, wraps>>
             [] f.kind \in {"Other", "Bad"} -> OnUndecodable(c, f)
             [] f.kind = "Error" ->
                    Break(c, "Err: WebSocket") /\ Did(c, NoEffect) /\ UNCHANGED <<lastCounter, wraps>>
             [] f.kind = "Closed" ->
                    Break(c, "Ok") /\ Did(c, NoEffect) /\ UNCHANGED <<lastCounter, wraps>>
    /\ UNCHANGED <<shared, client, ipAddr, respKey, hsIn, sessKey, aborted, hbv, rotv>>

\* --------------------------------------------------------------- cleanup
\* heartbeat_handle.abort(); key_rotation_handle.abort(); return process_result.
\* The locals of process_client_session and of the parked tasks are dropped.
AbortTasks(c) ==
    /\ pc[c] = "abort"
    /\ Goto(c, "unregister", <<Ev("abort_heartbeat"), Ev("abort_rotation")>>)
    /\ aborted' = [aborted EXCEPT ![c] = TRUE]
    /\ hbPc' = [hbPc EXCEPT ![c] = IF @ = "tick" THEN "cancelled" ELSE @]
    /\ sequence' = [sequence EXCEPT ![c] = 0]
    /\ pings' = [pings EXCEPT ![c] = <<>>]
    /\ rotPc' = [rotPc EXCEPT ![c] = IF @ = "tick" THEN "cancelled" ELSE @]
    /\ lastCounter' = [lastCounter EXCEPT ![c] = NoCounter]
    /\ wraps' = [wraps EXCEPT ![c] = 0]
    /\ nIn' = [nIn EXCEPT ![c] = 0]
    /\ cur' = [cur EXCEPT ![c] = NoFrame]
    /\ eff' = [eff EXCEPT ![c] = NoEffect]
    /\ sinceStop' = [sinceStop EXCEPT ![c] = 0]
    /\ UNCHANGED <<shared, client, ipAddr, respKey, hsIn, sessKey, exitRes>>
    /\ UNCHANGED <<rotNeeds, rotNew, rotCur, rotCount>>

\* A mutant of Unregister: the session stays in the registry.
Unregister_Skipped(c) ==
    /\ pc[c] = "unregister"
    /\ Goto(c, "release_ip", <<Ev("remove_session")>>)
    /\ UNCHANGED <<shared, client, ipAddr, respKey, hsIn, sessKey, exitRes, aborted, loopv, hbv, rotv>>

\* session_manager.remove_session(&session_id)
Unregister(c) ==
    /\ pc[c] = "unregister"
    /\ Goto(c, "release_ip", <<Ev("remove_session")>>)
    /\ registry' = RemoveSession(registry, c)
    /\ UNCHANGED <<budget, sendv, serverState, lease, keyStore>>
    /\ UNCHANGED <<client, ipAddr, respKey, hsIn, sessKey, exitRes, aborted, loopv, hbv, rotv>>

\* A mutant of ReleaseIp: a failed release ends the cleanup (release_ip(..)?).
ReleaseIp_Propagates(c) ==
    /\ pc[c] = "release_ip"
    /\ \E relOk \in ReleaseResults(ipAddr[c]) :
        /\ Goto(c, IF relOk THEN "erase_key" ELSE "terminated", <<Released(relOk)>>)
        /\ lease' = Release(lease, ipAddr[c], relOk)
    /\ UNCHANGED <<budget, sendv, serverState, registry, keyStore>>
    /\ UNCHANGED <<client, ipAddr, respKey, hsIn, sessKey, exitRes, aborted, loopv, hbv, rotv>>

\* A mutant of ReleaseIp: the address is not given back.
ReleaseIp_Skipped(c) ==
    /\ pc[c] = "release_ip"
    /\ Goto(c, "erase_key", <<>>)
    /\ UNCHANGED <<shared, client, ipAddr, respKey, hsIn, sessKey, exitRes, aborted, loopv, hbv, rotv>>

\* ip_pool.release_ip(&ip_address); an error is logged only.
ReleaseIp(c) ==
    /\ pc[c] = "release_ip"
    /\ \E relOk \in ReleaseResults(ipAddr[c]) :
        /\ Goto(c, "erase_key", <<Released(relOk)>>)
        /\ lease' = Release(lease, ipAddr[c], relOk)
    /\ UNCHANGED <<budget, sendv, serverState, registry, keyStore>>
    /\ UNCHANGED <<client, ipAddr, respKey, hsIn, sessKey, exitRes, aborted, loopv, hbv, rotv>>

\* session_key_manager.remove_key(&public_key_string); return result.
EraseKey(c) ==
    /\ pc[c] = "erase_key"
    /\ Goto(c, "terminated", <<Ev("remove_key")>>)
    /\ keyStore' = RemoveKey(keyStore, client[c])
    /\ UNCHANGED <<budget, sendv, serverState, registry, lease>>
    /\ UNCHANGED <<client, ipAddr, respKey, hsIn, sessKey, exitRes, aborted, loopv, hbv, rotv>>

\* -------------------------------------------------------- heartbeat task
\* A mutant of WrappingInc: the counter advances by two.
WrappingInc_ByTwo(n) == n + 2

\* sequence.wrapping_add(1).  The u64 modulus 2^64 is beyond the integers of
\* the model checker and beyond any run: the tick budget keeps sequence small,
\* where wrapping_add(1) is + 1.
WrappingInc(n) == n + 1

\* A mutant of HbTick: a failed send also ends the session's loop.
HbTick_FailureEndsLoop(c) ==
    /\ hbPc[c] = "tick"
    /\ sequence[c] < budget.ticks[c]
    /\ \E sendOk \in BOOLEAN :
        /\ pings' = [pings EXCEPT ![c] = Append(@, Sent(PingFrame(sequence[c]), sendOk))]
        /\ IF sendOk
           THEN /\ sequence' = [sequence EXCEPT ![c] = WrappingInc(@)]
                /\ hbPc' = hbPc
                /\ UNCHANGED <<pc, log, exitRes>>
           ELSE /\ sequence' = [sequence EXCEPT ![c] = 0]
                /\ hbPc' = [hbPc EXCEPT ![c] = "exited"]
                /\ Break(c, "Err: Heartbeat send failed")
    /\ UNCHANGED <<shared, client, ipAddr, respKey, hsIn, sessKey, aborted, loopv, rotv>>

\* One tick: send Ping{sequence}; a failed send ends the task.
HbTick(c) ==
    /\ hbPc[c] = "tick"
    /\ sequence[c] < budget.ticks[c]
    /\ \E sendOk \in BOOLEAN :
        /\ pings' = [pings EXCEPT ![c] = Append(@, Sent(PingFrame(sequence[c]), sendOk))]
        /\ IF sendOk
           THEN /\ sequence' = [sequence EXCEPT ![c] = WrappingInc(@)]
                /\ hbPc' = hbPc
           ELSE /\ sequence' = [sequence EXCEPT ![c] = 0]
                /\ hbPc' = [hbPc EXCEPT ![c] = "exited"]
    /\ UNCHANGED <<shared, connv, loopv, rotv>>

\* ----------------------------------------------------- key-rotation task
\* Where the task goes when it reaches interval.tick() again.
Park(c) == IF aborted[c] THEN "cancelled" ELSE "tick"

\* The locals of one iteration of the task: needs_rotation's answer, new_key,
\* current_key.
RotLocals(c, needs, new, current) ==
    /\ rotNeeds' = [rotNeeds EXCEPT ![c] = needs]
    /\ rotNew' = [rotNew EXCEPT ![c] = new]
    /\ rotCur' = [rotCur EXCEPT ![c] = current]
RotDropLocals(c) == RotLocals(c, FALSE, NoKey, NoKey)

\* One tick: needs_rotation; generate_key.
RotTick(c) ==
    /\ rotPc[c] = "tick"
    /\ rotCount[c] < budget.rots[c]
    /\ \E needs \in NeedsRotationResults(client[c]) :
        IF needs
        THEN /\ rotPc' = [rotPc EXCEPT ![c] = "get_key"]
             /\ RotLocals(c, needs, <<c, rotCount[c] + 1>>, NoKey)
        ELSE /\ rotPc' = rotPc
             /\ RotDropLocals(c)
    /\ UNCHANGED <<shared, connv, loopv, hbv, rotCount>>

\* A mutant of RotGetKey: the new key is stored before it is sent.
RotGetKey_StoresFirst(c) ==
    /\ rotPc[c] = "get_key"
    /\ \E encOk \in BOOLEAN :
        IF GetKey(client[c]) # NoKey /\ encOk
        THEN /\ rotPc' = [rotPc EXCEPT ![c] = "send"]
             /\ RotLocals(c, rotNeeds[c], rotNew[c], GetKey(client[c]))
             /\ keyStore' = StoreKey(keyStore, client[c], rotNew[c])
        ELSE /\ rotPc' = [rotPc EXCEPT ![c] = Park(c)]
             /\ RotDropLocals(c)
             /\ keyStore' = keyStore
    /\ UNCHANGED <<budget, sendv, serverState, registry, lease>>
    /\ UNCHANGED <<connv, loopv, hbv, rotCount>>

\* get_key; encrypt_chacha20 under the current key; sign_message.
RotGetKey(c) ==
    /\ rotPc[c] = "get_key"
    /\ \E encOk \in BOOLEAN :
        IF GetKey(client[c]) # NoKey /\ encOk
        THEN /\ rotPc' = [rotPc EXCEPT ![c] = "send"]
             /\ RotLocals(c, rotNeeds[c], rotNew[c], GetKey(client[c]))
        ELSE /\ rotPc' = [rotPc EXCEPT ![c] = Park(c)]
             /\ RotDropLocals(c)
    /\ UNCHANGED <<shared, connv, loopv, hbv, rotCount>>

\* Send KeyRotation; a failed send ends the task.
RotSend(c) ==
    /\ rotPc[c] = "send"
    /\ \E sendOk \in BOOLEAN :
        IF sendOk
        THEN /\ rotPc' = [rotPc EXCEPT ![c] = "store"]
             /\ UNCHANGED <<rotNeeds, rotNew, rotCur>>
        ELSE /\ rotPc' = [rotPc EXCEPT ![c] = "exited"]
             /\ RotDropLocals(c)
    /\ UNCHANGED <<shared, connv, loopv, hbv, rotCount>>

\* A mutant of RotStore: the current key is stored again, not the new one.
RotStore_CurrentKey(c) ==
    /\ rotPc[c] = "store"
    /\ keyStore' = StoreKey(keyStore, client[c], rotCur[c])
    /\ rotCount' = [rotCount EXCEPT ![c] = @ + 1]
    /\ rotPc' = [rotPc EXCEPT ![c] = Park(c)]
    /\ RotDropLocals(c)
    /\ UNCHANGED <<budget, sendv, serverState, registry, lease>>
    /\ UNCHANGED <<connv, loopv, hbv>>

\* store_key(&client_id, new_key)
RotStore(c) ==
    /\ rotPc[c] = "store"
    /\ keyStore' = StoreKey(keyStore, client[c], rotNew[c])
    /\ rotCount' = [rotCount EXCEPT ![c] = @ + 1]
    /\ rotPc' = [rotPc EXCEPT ![c] = Park(c)]
    /\ RotDropLocals(c)
    /\ UNCHANGED <<budget, sendv, serverState, registry, lease>>
    /\ UNCHANGED <<connv, loopv, hbv>>

\* The aborted task is dropped at an await between its tick and the next.
RotCancel(c) ==
    /\ aborted[c]
    /\ rotPc[c] \in {"get_key", "send", "store"}
    /\ rotPc' = [rotPc EXCEPT ![c] = "cancelled"]
    /\ RotDropLocals(c)
    /\ UNCHANGED <<shared, connv, loopv, hbv, rotCount>>

\* ----------------------------------------------------------- environment
\* The server leaves Running.
Shutdown ==
    /\ serverState = "Running"
    /\ serverState' = "Stopping"
    /\ UNCHANGED <<budget, sendv, registry, lease, keyStore>>
    /\ UNCHANGED <<connv, loopv, hbv, rotv>>

\* ------------------------------------------------------------------ Next
Next ==
    \/ \E c \in Conns : Accept(c)
    \/ \E c \in Conns : RecvAuth(c)
    \/ \E c \in Conns : RecvResponse(c)
    \/ \E c \in Conns : AllocIp(c)
    \/ \E c \in Conns : InstallKey(c)
    \/ \E c \in Conns : Derive(c)
    \/ \E c \in Conns : SendAssign(c)
    \/ \E c \in Conns : Register(c)
    \/ \E c \in Conns : Spawn(c)
    \/ \E c \in Conns : LoopCheck(c)
    \/ \E c \in Conns : LoopFrame(c)
    \/ \E c \in Conns : AbortTasks(c)
    \/ \E c \in Conns : Unregister(c)
    \/ \E c \in Conns : ReleaseIp(c)
    \/ \E c \in Conns : EraseKey(c)
    \/ \E c \in Conns : HbTick(c)
    \/ \E c \in Conns : RotTick(c)
    \/ \E c \in Conns : RotGetKey(c)
    \/ \E c \in Conns : RotSend(c)
    \/ \E c \in Conns : RotStore(c)
    \/ \E c \in Conns : RotCancel(c)
    \/ Shutdown

Spec == Init /\ [][Next]_vars
SpecSession == InitSession /\ [][Next]_vars

\* From the end of the loop to the end of handle_client the code is straight
\* line: abort, abort, remove_session, release_ip, remove_key, each of which
\* returns.
CleanupFairness ==
    \A c \in Conns :
        /\ WF_vars(AbortTasks(c))
        /\ WF_vars(Unregister(c))
        /\ WF_vars(ReleaseIp(c))
        /\ WF_vars(EraseKey(c))
SpecSessionLive == InitSession /\ [][Next]_vars /\ CleanupFairness

\* Each of the two reads of the handshake is ws_receiver.next() under
\* time::timeout(30 s): it returns, with a frame, an error, the end of the
\* stream or the expiry of the deadline.
HandshakeFairness ==
    \A c \in Conns :
        /\ WF_vars(RecvAuth(c))
        /\ WF_vars(RecvResponse(c))
SpecHandshakeLive == Init /\ [][Next]_vars /\ HandshakeFairness

\* -------------------------------------------------------------- send-lock
\* ClientSession::send_packet, one level below the steps above: the writer
\* locks the Mutex around ws_sender, writes the frame (the write starts and
\* ends) and unlocks.  The writers of a session are its inbound loop, its
\* heartbeat task and its key-rotation task; from registration on nobody else
\* holds ws_sender.
Part(w, p) == [writer |-> w, part |-> p]
FramesBy(c, w) == Cardinality({i \in 1..Len(wire[c]) : wire[c][i] = Part(w, "begin")})
SetSendPc(c, w, p) == sendPc' = [sendPc EXCEPT ![c][w] = p]
SendFrame == <<budget, serverState, registry, lease, keyStore, connv, loopv, hbv, rotv>>

\* session.send_packet(&packet) is called.
SendCall(c, w) ==
    /\ pc[c] \in {"loop", "recv"}
    /\ sendPc[c][w] = "idle"
    /\ FramesBy(c, w) < MaxSends
    /\ SetSendPc(c, w, "lock")
    /\ UNCHANGED <<sendLock, wire, SendFrame>>

\* A mutant of SendLock: the writer does not wait for the Mutex.
SendLock_NoWait(c, w) ==
    /\ sendPc[c][w] = "lock"
    /\ sendLock' = [sendLock EXCEPT ![c] = w]
    /\ SetSendPc(c, w, "write")
    /\ UNCHANGED <<wire, SendFrame>>

\* ws_sender.lock().await
SendLock(c, w) ==
    /\ sendPc[c][w] = "lock"
    /\ sendLock[c] = NoWriter
    /\ sendLock' = [sendLock EXCEPT ![c] = w]
    /\ SetSendPc(c, w, "write")
    /\ UNCHANGED <<wire, SendFrame>>

\* The write of the frame on the endpoint begins ...
SendWriteBegin(c, w) ==
    /\ sendPc[c][w] = "write"
    /\ wire' = [wire EXCEPT ![c] = Append(@, Part(w, "begin"))]
    /\ SetSendPc(c, w, "flush")
    /\ UNCHANGED <<sendLock, SendFrame>>

\* ... and ends.
SendWriteEnd(c, w) ==
    /\ sendPc[c][w] = "flush"
    /\ wire' = [wire EXCEPT ![c] = Append(@, Part(w, "end"))]
    /\ SetSendPc(c, w, "unlock")
    /\ UNCHANGED <<sendLock, SendFrame>>

\* The guard is dropped.
SendUnlock(c, w) ==
    /\ sendPc[c][w] = "unlock"
    /\ sendLock' = [sendLock EXCEPT ![c] = IF @ = w THEN NoWriter ELSE @]
    /\ SetSendPc(c, w, "idle")
    /\ UNCHANGED <<wire, SendFrame>>

NextSend ==
    \/ \E c \in Conns, w \in Writers : SendCall(c, w)
    \/ \E c \in Conns, w \in Writers : SendLock(c, w)
    \/ \E c \in Conns, w \in Writers : SendWriteBegin(c, w)
    \/ \E c \in Conns, w \in Writers : SendWriteEnd(c, w)
    \/ \E c \in Conns, w \in Writers : SendUnlock(c, w)

\* The first connection is in its loop, its tasks spawned.
Established ==
    /\ budget = Budget(1, First(MaxFrames), FrameKinds, First(MaxTicks), First(MaxRotations), TRUE)
    /\ serverState = "Running"
    /\ registry = {[id |-> 1, client |-> 1, ip |-> 1]}
    /\ lease = [i \in Ips |-> IF i = 1 THEN 1 ELSE NoConn]
    /\ keyStore = [k \in Clients |-> IF k = 1 THEN <<1, 0>> ELSE NoKey]
    /\ pc = [c \in Conns |-> IF c = 1 THEN "loop" ELSE "idle"]
    /\ client = [c \in Conns |-> IF c = 1 THEN 1 ELSE NoClient]
    /\ ipAddr = [c \in Conns |-> IF c = 1 THEN 1 ELSE NoIp]
    /\ sessKey = [c \in Conns |-> IF c = 1 THEN <<1, 0>> ELSE NoKey]
    /\ log = [c \in Conns |-> IF c = 1
                              THEN <<Ev("Auth"), Ev("Challenge"), Ev("verified"), Ev("acl_allowed"),
                                     Ev("allocate_ip"), Ev("store_key"), Ev("IpAssign"),
                                     Ev("add_session")>>
                              ELSE <<>>]
    /\ exitRes = [c \in Conns |-> IF c = 1 THEN "Ok" ELSE "none"]
    /\ aborted = [c \in Conns |-> FALSE]
    /\ lastCounter = [c \in Conns |-> NoCounter]
    /\ wraps = [c \in Conns |-> 0]
    /\ nIn = [c \in Conns |-> 0]
    /\ cur = [c \in Conns |-> NoFrame]
    /\ eff = [c \in Conns |-> NoEffect]
    /\ hbPc = [c \in Conns |-> IF c = 1 THEN "tick" ELSE "none"]
    /\ sequence = [c \in Conns |-> 0]
    /\ rotPc = [c \in Conns |-> IF c = 1 THEN "tick" ELSE "none"]
    /\ rotNeeds = [c \in Conns |-> FALSE]
    /\ rotNew = [c \in Conns |-> NoKey]
    /\ rotCur = [c \in Conns |-> NoKey]
    /\ rotCount = [c \in Conns |-> 0]
    /\ respKey = [c \in Conns |-> IF c = 1 THEN 1 ELSE NoClient]
    /\ hsIn = [c \in Conns |-> IF c = 1
                               THEN <<Frame("Auth", 1, 0), Frame("ChallengeResponse", 1, 0)>>
                               ELSE <<>>]
    /\ pings = [c \in Conns |-> <<>>]
    /\ sinceStop = [c \in Conns |-> 0]
    /\ sendLock = [c \in Conns |-> NoWriter]
    /\ sendPc = [c \in Conns |-> [w \in Writers |-> "idle"]]
    /\ wire = [c \in Conns |-> <<>>]
InitSend == Established
SpecSend == InitSend /\ [][NextSend]_vars

\* ---------------------------------------------------------------- claims
Events(c) == [i \in 1..Len(log[c]) |-> log[c][i].ev]
IsPrefix(s, t) == Len(s) <= Len(t) /\ SubSeq(t, 1, Len(s)) = s
\* From add_session to remove_session.
Registered(c) == pc[c] \in {"spawn", "loop", "recv", "abort", "unregister"}
Running(c) == pc[c] \in {"loop", "recv"}
CleanedUp(c) == pc[c] = "terminated" /\ Logged(c, "remove_key")

\* C1: the registry holds exactly one entry for a session's id from add_session
\* until remove_session, and none before registration or after cleanup,
\* whatever the other connections do.
C1_RegistryEntry ==
    \A c \in Conns :
        /\ Registered(c) => Cardinality(Entries(c)) = 1
        /\ ~Registered(c) => Entries(c) = {}
C1_Witness ==
    \E c, d \in Conns :
        /\ c # d
        /\ CleanedUp(c)
        /\ Running(d)
        /\ Cardinality(Entries(d)) = 1

\* C2: the counters of the Data frames that pass the replay check are strictly
\* increasing, except that counter 0 after a nonzero last_counter is accepted
\* at most once in a session.
C2_StrictlyIncreasing ==
    [][\A c \in Conns :
        (pc[c] = "recv" /\ nIn'[c] = nIn[c] + 1 /\ cur'[c].kind = "Data" /\ eff'[c].accepted
            /\ lastCounter[c] # NoCounter)
        => \/ cur'[c].a > lastCounter[c]
           \/ cur'[c].a = 0 /\ lastCounter[c] > 0 /\ wraps[c] = 0]_vars

\* C3: a connection whose client the ACL denies after a successful
\* verify_challenge is sent Error(1005) and terminates; it holds no address,
\* has installed no key and is not registered.
C3_AclDenied ==
    \A c \in Conns :
        Logged(c, "acl_denied") =>
            /\ pc[c] = "terminated"
            /\ Logged(c, "verified")
            /\ log[c][Len(log[c])].ev = "Error" /\ log[c][Len(log[c])].n = ErrAcl
            /\ ipAddr[c] = NoIp /\ \A i \in Ips : lease[i] # c
            /\ sessKey[c] = NoKey /\ \A k \in Clients : keyStore[k][1] # c
            /\ Entries(c) = {}
            /\ ~Logged(c, "allocate_ip") /\ ~Logged(c, "store_key") /\ ~Logged(c, "add_session")
C3_Witness == \E c \in Conns : Logged(c, "acl_denied") /\ Logged(c, "verified")

\* C4: once a registered session has left the loop, cleanup runs once and in
\* the order abort heartbeat, abort rotation, remove_session, release_ip,
\* remove_key; remove_key follows release_ip whatever release_ip returned.
CleanupOrder == <<"abort_heartbeat", "abort_rotation", "remove_session", "release_ip", "remove_key">>
AfterRegistration(c) == SubSeq(Events(c), IndexOf(c, "add_session") + 1, Len(log[c]))
C4_CleanupOrder ==
    \A c \in Conns :
        Logged(c, "add_session") =>
            /\ IsPrefix(AfterRegistration(c), CleanupOrder)
            /\ pc[c] = "terminated" =>
                /\ AfterRegistration(c) = CleanupOrder
                /\ aborted[c] /\ hbPc[c] \in {"cancelled", "exited"}
                /\ Entries(c) = {}
            /\ pc[c] = "unregister" => aborted[c]
            /\ pc[c] = "release_ip" => aborted[c] /\ Entries(c) = {}
            /\ pc[c] = "erase_key" => aborted[c] /\ Entries(c) = {} /\ Logged(c, "release_ip")
C4_Witness ==
    \E c \in Conns :
        /\ CleanedUp(c)
        /\ Has(c, Released(FALSE))
        /\ exitRes[c] = "Err: Pong send failed"

\* C5: when the send of IpAssign fails, the address is released, the key the
\* connection installed is removed from the key store, and no session is
\* registered.
C5_AssignFailureUndone ==
    \A c \in Conns :
        (pc[c] = "terminated" /\ Logged(c, "IpAssign_failed")) =>
            /\ lease[ipAddr[c]] # c
            /\ keyStore[client[c]] # sessKey[c]
            /\ Entries(c) = {}

\* C6: whenever handle_client ends after allocate_ip without the session being
\* registered, the address has been released and the installed key removed.
C6_EstablishmentUndone ==
    \A c \in Conns :
        (pc[c] = "terminated" /\ Logged(c, "allocate_ip") /\ ~Logged(c, "add_session")) =>
            /\ lease[ipAddr[c]] # c
            /\ Logged(c, "store_key") => keyStore[client[c]] # sessKey[c]

EstablishOrder ==
    <<"Auth", "Challenge", "verified", "acl_allowed", "allocate_ip", "store_key", "IpAssign",
      "add_session">>
C8_EstablishOrder ==
    \A c \in Conns :
        (Entries(c) # {} \/ Registered(c) \/ Logged(c, "add_session")) =>
            /\ IsPrefix(EstablishOrder, Events(c))
            /\ IsValidPubkey(client[c])
            /\ ipAddr[c] # NoIp
            /\ sessKey[c] # NoKey
C8_Witness == \E c \in Conns : Running(c) /\ Entries(c) # {}

\* C9: the iteration that dispatches a Ping makes exactly one send attempt, a
\* Pong whose echo_timestamp and sequence are the Ping's; no other iteration
\* sends a Pong.
C9_PingPong ==
    \A c \in Conns :
        /\ cur[c].kind = "Ping" =>
            /\ Len(eff[c].sent) = 1
            /\ eff[c].sent[1].frame = Frame("Pong", cur[c].a, cur[c].b)
        /\ (\E i \in 1..Len(eff[c].sent) : eff[c].sent[i].frame.kind = "Pong") => cur[c].kind = "Ping"
C9_Witness ==
    \E c \in Conns :
        /\ cur[c] = Frame("Ping", 7, 1)
        /\ eff[c].sent = <<Sent(Frame("Pong", 7, 1), TRUE)>>
        /\ pc[c] = "loop"

C11_KeyMismatch ==
    \A c \in Conns :
        (respKey[c] # NoClient /\ respKey[c] # client[c]) =>
            /\ pc[c] = "terminated"
            /\ \E ok \in BOOLEAN :
                log[c] = <<Ev("Auth"), Ev("Challenge"), ErrorSent(ErrAuth, "Public key mismatch", ok)>>
            /\ ~Logged(c, "verified") /\ ~Logged(c, "verify_failed")
            /\ ipAddr[c] = NoIp /\ \A i \in Ips : lease[i] # c
            /\ sessKey[c] = NoKey /\ \A k \in Clients : keyStore[k][1] # c
            /\ Entries(c) = {}
C11_Witness ==
    \E c \in Conns :
        /\ respKey[c] \in Clients
        /\ client[c] \in Clients
        /\ respKey[c] # client[c]
        /\ pc[c] = "terminated"

\* C12: an iteration that starts while ServerState is not Running sends
\* Disconnect{reason=2}, reads no frame and leaves the loop with the result
\* "Server shutting down"; whatever the send returned, cleanup follows:
\* the registry entry is removed, release_ip and remove_key are called.
ShutdownExit(c) == exitRes[c] = "Err: Server shutting down"
C12_Shutdown ==
    /\ [][\A c \in Conns :
            (pc[c] = "loop" /\ serverState # "Running" /\ pc'[c] # "loop") =>
                /\ pc'[c] = "abort"
                /\ \E ok \in BOOLEAN : eff'[c].sent = <<Sent(Frame("Disconnect", 2, 0), ok)>>
                /\ cur'[c] = NoFrame /\ nIn'[c] = nIn[c]
                /\ exitRes'[c] = "Err: Server shutting down"]_vars
    /\ \A c \in Conns :
        (pc[c] = "abort" /\ ShutdownExit(c)) ~>
            (/\ pc[c] = "terminated" /\ ShutdownExit(c)
             /\ AfterRegistration(c) = CleanupOrder
             /\ Entries(c) = {}
             /\ Has(c, Released(TRUE)) => lease[ipAddr[c]] # c)
C12_Witness ==
    \E c \in Conns :
        /\ pc[c] = "abort"
        /\ ShutdownExit(c)
        /\ eff[c].sent = <<Sent(Frame("Disconnect", 2, 0), FALSE)>>
        /\ Entries(c) # {}

\* C13: a Data frame with counter <= last_counter and counter # 0 is dropped
\* silently: last_counter keeps its value, the frame is not routed, no traffic
\* is recorded, nothing is sent, and the loop goes on to its next iteration.
C13_ReplayDropped ==
    [][\A c \in Conns :
        (/\ pc[c] = "recv" /\ nIn'[c] = nIn[c] + 1
         /\ cur'[c].kind = "Data"
         /\ lastCounter[c] # NoCounter /\ cur'[c].a <= lastCounter[c] /\ cur'[c].a # 0)
        => /\ lastCounter'[c] = lastCounter[c]
           /\ eff'[c] = Effect(<<>>, FALSE, FALSE, FALSE, FALSE)
           /\ pc'[c] = "loop"
           /\ exitRes'[c] = exitRes[c]
           /\ UNCHANGED <<registry, lease, keyStore>>]_vars
C13_Witness ==
    \E c \in Conns :
        /\ cur[c] = Frame("Data", 2, 0)
        /\ lastCounter[c] = 2
        /\ nIn[c] = 2
        /\ ~eff[c].accepted /\ ~eff[c].routed /\ eff[c].sent = <<>>
        /\ pc[c] = "loop"

\* C15: while a session is in its loop the key store holds a key for its
\* client, whatever other connections (of the same client or not) do.
C15_KeyWhileRunning ==
    \A c \in Conns : Running(c) => keyStore[client[c]] # NoKey

\* C16: once a session's cleanup has completed and no other connection of the
\* same client holds a key, the key store holds no key for the client.
SameClient(c) == {d \in Conns \ {c} : client[d] = client[c] /\ pc[d] # "terminated"}
C16_NoKeyAfterCleanup ==
    \A c \in Conns :
        (CleanedUp(c) /\ SameClient(c) = {}) => keyStore[client[c]] = NoKey

\* C17: the rotation task changes the stored key only in the step that follows
\* a successful KeyRotation send; a failed encryption, a missing key and a
\* failed send leave the stored key as it was, a failed send ends the task, and
\* a new rotation starts only when the task has no rotation under way.
InFlight(c) == rotPc[c] \in {"get_key", "send", "store"}
C17_StoreAfterSend ==
    [][\A c \in Conns :
        /\ (rotNew[c] # NoKey /\ keyStore[client[c]] # rotNew[c] /\ keyStore'[client[c]] = rotNew[c])
            => rotPc[c] = "store"
        /\ (rotPc'[c] = "store" /\ rotPc[c] # "store") => rotPc[c] = "send"
        /\ (rotPc[c] = "get_key" /\ rotPc'[c] \notin {"get_key", "send"}) => keyStore' = keyStore
        /\ (rotPc[c] = "send" /\ rotPc'[c] \notin {"send", "store"})
            => keyStore' = keyStore /\ rotPc'[c] \in {"exited", "cancelled"}
        /\ rotPc[c] = "exited" => rotPc'[c] = "exited"
        /\ (InFlight(c)' /\ ~InFlight(c)) => (rotPc[c] = "tick" /\ rotNew[c] = NoKey)]_vars
C17_Witness ==
    \E c \in Conns :
        /\ rotPc[c] = "exited"
        /\ rotCount[c] = 1
        /\ keyStore[client[c]] = <<c, 1>>
        /\ Running(c)

\* C18: a failed heartbeat send and a failed KeyRotation send end the task that
\* made them and nothing else: the position and result of the session's loop,
\* the other task, the registry, the leases and the key store are untouched.
C18_TimerFailure ==
    [][\A c \in Conns :
        /\ (hbPc[c] = "tick" /\ hbPc'[c] = "exited")
            => UNCHANGED <<pc, exitRes, aborted, rotPc, registry, lease, keyStore>>
        /\ (rotPc[c] = "send" /\ rotPc'[c] = "exited")
            => UNCHANGED <<pc, exitRes, aborted, hbPc, registry, lease, keyStore>>
        /\ (hbPc[c] = "exited" /\ rotPc[c] = "exited" /\ Running(c))
            => /\ Cardinality(Entries(c)) = 1
               /\ lease[ipAddr[c]] = c
               /\ keyStore[client[c]] # NoKey]_vars
C18_Witness ==
    \E c \in Conns :
        /\ hbPc[c] = "exited"
        /\ rotPc[c] = "exited"
        /\ pc[c] = "recv"
        /\ Cardinality(Entries(c)) = 1
        /\ lease[ipAddr[c]] = c
        /\ keyStore[client[c]] # NoKey

\* C19: a frame that does not decode, and a frame of a kind other than Data,
\* Ping, Pong, IpRenewal and Disconnect, make the loop send nothing and change
\* neither last_counter nor the registry, the leases or the key store; the
\* loop goes on to its next iteration.
C19_NonFatal ==
    [][\A c \in Conns :
        (pc[c] = "recv" /\ nIn'[c] = nIn[c] + 1 /\ cur'[c].kind \in {"Bad", "Other"})
        => /\ eff'[c] = Effect(<<>>, FALSE, FALSE, FALSE, FALSE)
           /\ lastCounter'[c] = lastCounter[c]
           /\ pc'[c] = "loop"
           /\ exitRes'[c] = exitRes[c]
           /\ UNCHANGED <<registry, lease, keyStore>>]_vars
C19_Witness ==
    \E c \in Conns :
        /\ cur[c].kind = "Bad"
        /\ nIn[c] = 2
        /\ lastCounter[c] = 1
        /\ pc[c] = "recv"

\* C20: after ServerState has left Running the loop dispatches at most one
\* more inbound frame: it never waits for a second one, and its next
\* iteration ends the loop with the shutdown result.
C20_ObservedWithinOneFrame ==
    \A c \in Conns :
        /\ sinceStop[c] <= 1
        /\ sinceStop[c] = 1 => (pc[c] \in {"loop", "abort"} /\ serverState # "Running")
        /\ (sinceStop[c] = 1 /\ pc[c] = "abort" /\ cur[c] = NoFrame) => ShutdownExit(c)
C20_Witness ==
    \E c \in Conns :
        /\ sinceStop[c] = 1
        /\ pc[c] = "abort"
        /\ ShutdownExit(c)
        /\ cur[c] = NoFrame
        /\ \E ok \in BOOLEAN : eff[c].sent = <<Sent(Frame("Disconnect", 2, 0), ok)>>

\* C14: the writes of a session's three writers on its send endpoint never
\* overlap: a writer writes only while it holds the send-lock, at most one
\* writer holds it, and on the wire every frame's beginning is followed by its
\* own end before any other frame begins.
Holding(c) == {w \in Writers : sendPc[c][w] \in {"write", "flush", "unlock"}}
C14_SendsSerialized ==
    \A c \in Conns :
        /\ Cardinality(Holding(c)) <= 1
        /\ \A w \in Holding(c) : sendLock[c] = w
        /\ \A i \in 1..Len(wire[c]) :
            /\ (i % 2 = 1) => wire[c][i].part = "begin"
            /\ (i % 2 = 0) => wire[c][i] = Part(wire[c][i - 1].writer, "end")
C14_Witness ==
    \E c \in Conns :
        /\ Len(wire[c]) = 6
        /\ {wire[c][i].writer : i \in 1..6} = Writers
        /\ sendPc[c]["loop"] = "lock"
        /\ sendLock[c] = "rotation"

\* C21: a Data frame that passes the replay rule while the key store holds no
\* key for the session's client is dropped: the router is not called, no
\* traffic is recorded, nothing is sent and the session stays in its loop with
\* its result untouched.  last_counter has been set to the frame's counter all
\* the same, as it is when the router is called and returns an error.
DataPassed(c) ==
    /\ pc[c] = "recv" /\ pc'[c] # "recv"
    /\ cur'[c].kind = "Data"
    /\ ~(lastCounter[c] # NoCounter /\ cur'[c].a <= lastCounter[c] /\ cur'[c].a # 0)
C21_NoKeyDrop ==
    [][\A c \in Conns :
        DataPassed(c) =>
            /\ lastCounter'[c] = cur'[c].a
            /\ pc'[c] = "loop"
            /\ exitRes'[c] = exitRes[c]
            /\ eff'[c].accepted /\ eff'[c].sent = <<>>
            /\ eff'[c].routed <=> keyStore[client[c]] # NoKey
            /\ eff'[c].recorded => eff'[c].routed
            /\ registry' = registry /\ lease' = lease /\ keyStore' = keyStore]_vars
C21_Witness ==
    \E c \in Conns :
        /\ pc[c] = "loop"
        /\ cur[c].kind = "Data" /\ cur[c].a > 0
        /\ eff[c].accepted /\ ~eff[c].routed /\ ~eff[c].recorded
        /\ lastCounter[c] = cur[c].a
        /\ keyStore[client[c]] = NoKey
        /\ \E r \in registry : r.id = c

\* C22: the loop ends with Ok when the stream is closed or a Disconnect is
\* received, and with an error on a transport error.  A Pong or an
\* IpRenewalResponse whose send fails ends the loop with an error, while a
\* send that succeeds leaves the session in its loop; the loop is left from a
\* read for no other reason, and after an error the cleanup runs to its end.
FailedSend(c) == eff'[c].sent # <<>> /\ ~eff'[c].sent[1].ok
C22_LoopExit ==
    /\ [][\A c \in Conns :
            (pc[c] = "recv" /\ pc'[c] # "recv") =>
                /\ cur'[c].kind \in {"Closed", "Disconnect"} =>
                        pc'[c] = "abort" /\ exitRes'[c] = "Ok"
                /\ cur'[c].kind = "Error" =>
                        pc'[c] = "abort" /\ exitRes'[c] = "Err: WebSocket"
                /\ cur'[c].kind = "Ping" =>
                        /\ Len(eff'[c].sent) = 1 /\ eff'[c].sent[1].frame.kind = "Pong"
                        /\ IF FailedSend(c)
                           THEN pc'[c] = "abort" /\ exitRes'[c] = "Err: Pong send failed"
                           ELSE pc'[c] = "loop" /\ exitRes'[c] = exitRes[c]
                /\ (cur'[c].kind = "IpRenewal" /\ eff'[c].renewed) =>
                        /\ Len(eff'[c].sent) = 1
                        /\ eff'[c].sent[1].frame.kind = "IpRenewalResponse"
                        /\ IF FailedSend(c)
                           THEN /\ pc'[c] = "abort"
                                /\ exitRes'[c] \in {"Err: IP renewal response send failed",
                                                   "Err: Failed IP renewal response send failed"}
                           ELSE pc'[c] = "loop" /\ exitRes'[c] = exitRes[c]
                /\ pc'[c] = "abort" =>
                        \/ cur'[c].kind \in {"Closed", "Disconnect", "Error"}
                        \/ cur'[c].kind \in {"Ping", "IpRenewal"} /\ FailedSend(c)]_vars
    /\ \A c \in Conns :
            (pc[c] = "abort" /\ exitRes[c] # "Ok") ~>
                (CleanedUp(c) /\ AfterRegistration(c) = CleanupOrder)
C22_Witness ==
    \E c \in Conns :
        /\ CleanedUp(c)
        /\ exitRes[c] = "Err: Pong send failed"
        /\ AfterRegistration(c) = CleanupOrder
        /\ ~\E r \in registry : r.id = c

C23_Mismatch ==
    \E c \in Conns :
        /\ pc[c] = "loop"
        /\ cur[c].kind = "IpRenewal" /\ cur[c].a = c /\ cur[c].b # ipAddr[c]
        /\ eff[c] = NoEffect

\* C24: every failure of the handshake is terminal.  A first frame that is not
\* an Auth, or a second that is not a ChallengeResponse, ends handle_client
\* after one attempt to send Error(1002); a malformed public key, a challenge
\* that could not be generated and a failed verification end it after one
\* attempt to send Error(1001).  Whether or not that send succeeded, the
\* connection is terminated with no address, no key and no session of its own.
NoResources(c) ==
    /\ ipAddr[c] = NoIp /\ sessKey[c] = NoKey
    /\ \A i \in Ips : lease[i] # c
    /\ ~\E r \in registry : r.id = c
    /\ ~Logged(c, "allocate_ip") /\ ~Logged(c, "store_key") /\ ~Logged(c, "add_session")
EndsWithError(c, code) ==
    /\ pc[c] = "terminated"
    /\ log[c] # <<>>
    /\ log[c][Len(log[c])].ev = "Error" /\ log[c][Len(log[c])].n = code
    /\ Cardinality({i \in 1..Len(log[c]) : log[c][i].ev = "Error"}) = 1
    /\ NoResources(c)
C24_HandshakeFailure ==
    \A c \in Conns :
        /\ (hsIn[c] # <<>> /\ hsIn[c][1].kind \in {"Other", "Bad"}) => EndsWithError(c, 1002)
        /\ (Len(hsIn[c]) = 2 /\ hsIn[c][2].kind \in {"Other", "Bad"}) => EndsWithError(c, 1002)
        /\ (hsIn[c] # <<>> /\ hsIn[c][1] = Frame("Auth", BadKey, 0)) => EndsWithError(c, 1001)
        /\ Logged(c, "generate_failed") => EndsWithError(c, 1001)
        /\ Logged(c, "verify_failed") => EndsWithError(c, 1001)
        /\ Logged(c, "challenge_failed") => (pc[c] = "terminated" /\ NoResources(c))
C24_Witness ==
    \E c \in Conns :
        /\ Logged(c, "verify_failed")
        /\ log[c][Len(log[c])] = ErrorSent(ErrAuth, "Challenge verification failed", FALSE)
        /\ pc[c] = "terminated"
        /\ \E d \in Conns : d # c /\ pc[d] = "loop" /\ client[d] = client[c]

\* C25: the handshake cannot wait forever.  Each of its two waits is left: by
\* a frame, by the expiry of the read's deadline or by the end of the stream.
\* A read that timed out, failed or found the stream closed terminates the
\* connection without an Error frame, with no address, no key and no session.
Waiting(c) == pc[c] \in {"await_auth", "await_response"}
LastRead(c) == hsIn[c][Len(hsIn[c])]
C25_HandshakeDeadline ==
    /\ [](\A c \in Conns :
            (hsIn[c] # <<>> /\ LastRead(c).kind \in {"Timeout", "Error", "Closed"}) =>
                /\ pc[c] = "terminated"
                /\ ~Logged(c, "Error")
                /\ NoResources(c))
    /\ \A c \in Conns : Waiting(c) ~> ~Waiting(c)
C25_Witness ==
    \E c \in Conns :
        /\ Len(hsIn[c]) = 2
        /\ hsIn[c][1].kind = "Auth" /\ hsIn[c][2].kind = "Timeout"
        /\ pc[c] = "terminated"
        /\ log[c] = <<Ev("Auth"), Ev("Challenge")>>

\* C26: the sequence numbers of a session's heartbeat Pings start at 0 and go
\* up by exactly one with every Ping that was sent: the Pings carry 0, 1, 2,
\* ... with no gap and no repeat.  Only the last attempt can have failed, and
\* it ended the task; while the task lives its counter is the number of Pings
\* sent so far.
C26_PingSequence ==
    \A c \in Conns :
        /\ \A i \in 1..Len(pings[c]) :
            /\ pings[c][i].frame.kind = "Ping"
            /\ pings[c][i].frame.b = i - 1
            /\ i < Len(pings[c]) => pings[c][i].ok
        /\ hbPc[c] = "tick" =>
            /\ sequence[c] = Len(pings[c])
            /\ \A i \in 1..Len(pings[c]) : pings[c][i].ok
        /\ (hbPc[c] = "exited" /\ Running(c)) =>
                (pings[c] # <<>> /\ ~pings[c][Len(pings[c])].ok)
C26_Witness ==
    \E c \in Conns :
        /\ hbPc[c] = "exited"
        /\ Len(pings[c]) = MaxTicks
        /\ \A i \in 1..Len(pings[c]) : pings[c][i] = Sent(Frame("Ping", 0, i - 1), i < MaxTicks)
        /\ Running(c)

=============================================================================
